---- MODULE Spec2Model ----
(***************************************************************************)
(* A model of utils/gh_issues.py: one run of the command-line tool.  A run *)
(* is one command with its parsed options, executed against a backend (the *)
(* gh program), a file system and a standard-input stream.                 *)
(*                                                                         *)
(* Text is a sequence of one-character strings; None is the Python None.   *)
(***************************************************************************)
EXTENDS Integers, Sequences, FiniteSets, TLC

\* ------------------------------------------------------------------ bounds
MaxTitleLen == 2
MaxBodyLen == 1
MaxLabels == 2
MaxItems == 2

\* -------------------------------------------------------------- text values
None == <<"None">>

Truthy(x) == x # None /\ x # <<>>

RECURSIVE LStrip(_)
LStrip(s) ==
    IF s = <<>> THEN s
    ELSE IF Head(s) = " " THEN LStrip(Tail(s)) ELSE s

RECURSIVE RStrip(_)
RStrip(s) ==
    IF s = <<>> THEN s
    ELSE IF s[Len(s)] = " " THEN RStrip(SubSeq(s, 1, Len(s) - 1)) ELSE s

Strip(s) == RStrip(LStrip(s))

\* s.split(sep): the segments of s between occurrences of the character sep
RECURSIVE Split(_, _)
Split(s, sep) ==
    IF s = <<>> THEN << <<>> >>
    ELSE IF Head(s) = sep THEN << <<>> >> \o Split(Tail(s), sep)
    ELSE LET r == Split(Tail(s), sep)
         IN  << <<Head(s)>> \o Head(r) >> \o Tail(r)

Last(q) == q[Len(q)]

Range(q) == { q[i] : i \in 1..Len(q) }

\* the orders in which a Python set may be iterated
Orderings(S) ==
    { q \in [1..Cardinality(S) -> S] : Range(q) = S }

\* all texts over an alphabet up to a length
TextsUpTo(alphabet, n) ==
    UNION { [1..k -> alphabet] : k \in 0..n }

\* ---------------------------------------------------------------- constants
IssueTypes == {"bug", "feature", "task", "phase", "custom"}
NoType == "None"

OutputFormat == {"human", "json"}

\* body_template is held line by line
TEMPLATES ==
    [bug     |-> [title_prefix |-> <<"[", "B", "u", "g", "]">>,
                  labels |-> << <<"b", "u", "g">> >>,
                  body_template |->
                      <<"## Priority", "{priority}", "",
                        "## Description", "{description}", "",
                        "## Steps to Reproduce", "{steps}", "",
                        "## Current Behavior", "{current_behavior}", "",
                        "## Expected Behavior", "{expected_behavior}", "">>],
     feature |-> [title_prefix |-> <<"[", "F", "e", "a", "t", "u", "r", "e", "]">>,
                  labels |-> << <<"e", "n", "h", "a", "n", "c", "e", "m", "e", "n", "t">> >>,
                  body_template |->
                      <<"## Priority", "{priority}", "",
                        "## Description", "{description}", "",
                        "## Implementation", "{implementation}", "",
                        "## Benefits", "{benefits}", "">>],
     task    |-> [title_prefix |-> <<"[", "T", "a", "s", "k", "]">>,
                  labels |-> << <<"t", "a", "s", "k">> >>,
                  body_template |->
                      <<"## Priority", "{priority}", "",
                        "## Description", "{description}", "",
                        "## Implementation Steps", "{implementation}", "",
                        "## Acceptance Criteria", "{criteria}", "">>]]

\* TEMPLATES.get(issue_type.value, {}) followed by .get("title_prefix", "")
\* and .get("labels", [])
TemplateGet(t) ==
    IF t \in DOMAIN TEMPLATES THEN TEMPLATES[t]
    ELSE [title_prefix |-> <<>>, labels |-> <<>>]

\* the commands registered with @app.command()
Commands ==
    {"list", "view", "create", "close", "reopen", "comment", "edit",
     "search", "labels", "status", "schema"}

\* the commands whose first statement is ensure_auth()
AuthCommands ==
    {"list", "view", "create", "close", "reopen", "comment", "edit",
     "search", "labels"}

\* ------------------------------------------------------------------- inputs
Titles == TextsUpTo({" ", "t"}, MaxTitleLen)
Bodies == TextsUpTo({"x", "y"}, MaxBodyLen)
Path == <<"p">>
IssueNumbers == {42}

\* the comma-separated texts a caller can give to --labels
LabelTokens == { <<"a">>, <<" ", "a">>, <<"b", "u", "g">>, <<>> }

RECURSIVE JoinComma(_)
JoinComma(q) ==
    IF Len(q) = 1 THEN q[1] ELSE q[1] \o <<",">> \o JoinComma(Tail(q))

LabelTexts ==
    { JoinComma(q) : q \in UNION { [1..k -> LabelTokens] : k \in 1..MaxLabels } }

DefaultOpts ==
    [issue_number |-> 0, title |-> None, body |-> None, body_file |-> None,
     body_stdin |-> FALSE, issue_type |-> NoType, labels |-> None,
     assignee |-> None, comment |-> None, reason |-> "completed",
     add_labels |-> None, remove_labels |-> None, add_assignee |-> None,
     comments |-> FALSE, output_fmt |-> "human"]

OptText == {None, <<"v">>}

\* the parsed options each command can be started with
OptsFor(c) ==
    CASE c = "list" ->
           { [DefaultOpts EXCEPT !.labels = l, !.assignee = a, !.output_fmt = f] :
               l \in OptText, a \in OptText, f \in OutputFormat }
      [] c = "view" ->
           { [DefaultOpts EXCEPT !.issue_number = n, !.comments = k, !.output_fmt = f] :
               n \in IssueNumbers, k \in BOOLEAN, f \in OutputFormat }
      [] c = "create" ->
           { [DefaultOpts EXCEPT !.title = t, !.issue_type = y, !.labels = l,
                                 !.output_fmt = f] :
               t \in Titles, y \in IssueTypes \cup {NoType},
               l \in {None} \cup LabelTexts, f \in {"json"} }
           \cup
           { [DefaultOpts EXCEPT !.title = <<"t">>, !.body = b, !.body_file = p,
                                 !.issue_type = y, !.assignee = a, !.output_fmt = f] :
               b \in {None} \cup Bodies, p \in {None, Path}, y \in {NoType, "bug"},
               a \in OptText, f \in OutputFormat }
      [] c = "close" ->
           { [DefaultOpts EXCEPT !.issue_number = n, !.comment = b, !.reason = r,
                                 !.output_fmt = f] :
               n \in IssueNumbers, b \in {None} \cup Bodies,
               r \in {"completed", "not_planned", "other"}, f \in OutputFormat }
      [] c = "reopen" ->
           { [DefaultOpts EXCEPT !.issue_number = n, !.comment = b, !.output_fmt = f] :
               n \in IssueNumbers, b \in {None} \cup Bodies, f \in OutputFormat }
      [] c = "comment" ->
           { [DefaultOpts EXCEPT !.issue_number = n, !.body = b, !.body_file = p,
                                 !.body_stdin = s, !.output_fmt = f] :
               n \in IssueNumbers, b \in {None} \cup Bodies, p \in {None, Path},
               s \in BOOLEAN, f \in OutputFormat }
      [] c = "edit" ->
           { [DefaultOpts EXCEPT !.issue_number = n, !.title = t, !.body = b,
                                 !.body_file = p, !.add_labels = al,
                                 !.remove_labels = rl, !.add_assignee = aa,
                                 !.output_fmt = f] :
               n \in IssueNumbers, t \in {None, <<>>, <<"t">>},
               b \in {None} \cup Bodies, p \in {None, Path}, al \in OptText,
               rl \in OptText, aa \in OptText, f \in OutputFormat }
      [] c \in {"search", "labels", "status"} ->
           { [DefaultOpts EXCEPT !.output_fmt = f] : f \in OutputFormat }
      [] OTHER -> { DefaultOpts }

\* the file behind --body-file and the content of standard input
FileStatus == {"missing", "readable", "unreadable"}

EnvFor(o) ==
    LET files == IF Truthy(o.body_file)
                 THEN { [fileStatus |-> "missing", fileContent |-> <<>>],
                        [fileStatus |-> "unreadable", fileContent |-> <<>>] }
                      \cup { [fileStatus |-> "readable", fileContent |-> b] :
                               b \in Bodies }
                 ELSE { [fileStatus |-> "missing", fileContent |-> <<>>] }
        stdins == IF o.body_stdin THEN Bodies ELSE { <<>> }
    IN  { [fileStatus |-> fl.fileStatus, fileContent |-> fl.fileContent,
           stdin |-> si] : fl \in files, si \in stdins }

\* -------------------------------------------------------------------- state
VARIABLES
    cmd,          \* the command of this run
    opts,         \* its parsed options
    env,          \* the file behind --body-file and standard input
    pc,           \* the position of the run in the command's function
    calls,        \* the backend invocations made so far, in order, with status
    result,       \* the CompletedProcess of the latest run_gh
    out,          \* what was printed so far, one entry per output/rprint/print
    exitCode,     \* the exit status of the process, -1 while it runs
    exc,          \* the exception that ended the run, "none" for a return
    final_title,  \* locals of create, comment and edit
    final_labels,
    final_body

vars == <<cmd, opts, env, pc, calls, result, out, exitCode, exc,
          final_title, final_labels, final_body>>

\* the first statement of each command's function
Entry(c) ==
    IF c \in AuthCommands THEN "ensure_auth"
    ELSE IF c = "status" THEN "status_auth" ELSE "schema"

NoResult == [returncode |-> 0, stdout |-> <<>>, stderr |-> <<>>]

Init ==
    /\ cmd \in Commands
    /\ opts \in OptsFor(cmd)
    /\ env \in EnvFor(opts)
    /\ pc = Entry(cmd)
    /\ calls = <<>>
    /\ result = NoResult
    /\ out = <<>>
    /\ exitCode = -1
    /\ exc = "none"
    /\ final_title = None
    /\ final_labels = <<>>
    /\ final_body = None

\* ------------------------------------------------------------------ helpers
\* the argument list of one gh invocation, by option; None is an option
\* that is not on the command line
NoArgs ==
    [prog |-> "", number |-> 0, title |-> None, body |-> None,
     labels |-> <<>>, label |-> None, add_label |-> None,
     remove_label |-> None, assignee |-> None, add_assignee |-> None,
     reason |-> "", comments |-> FALSE]

\* what gh can answer: stdout is read only after status 0, stderr only
\* after a non-zero status
Stderrs == { <<>>, <<"e", " ">> }

Results(stdouts, stderrs) ==
    { [returncode |-> 0, stdout |-> so, stderr |-> <<>>] : so \in stdouts }
    \cup { [returncode |-> 1, stdout |-> <<>>, stderr |-> se] : se \in stderrs }

\* run_gh(args, check=False): one blocking invocation; res is gh's answer
run_gh(args, res) ==
    calls' = Append(calls, [args |-> args, returncode |-> res.returncode])

\* variant: a list is always rendered as a table
output_always_table(data, isList, fmt, msg) ==
    IF fmt = "json"
    THEN [via |-> "output", mode |-> "json", form |-> "document",
          msg |-> <<>>, isList |-> isList, data |-> data]
    ELSE [via |-> "output", mode |-> "human",
          form |-> IF isList THEN "table" ELSE "lines",
          msg |-> msg, isList |-> isList, data |-> data]

\* output(data, fmt, msg): one rendered record
output(data, isList, fmt, msg) ==
    IF fmt = "json"
    THEN [via |-> "output", mode |-> "json", form |-> "document",
          msg |-> <<>>, isList |-> isList, data |-> data]
    ELSE [via |-> "output", mode |-> "human",
          form |-> IF isList
                   THEN IF data = <<>> THEN "no_results" ELSE "table"
                   ELSE "lines",
          msg |-> msg, isList |-> isList, data |-> data]

\* rich.print of one fixed line
rprint(text) ==
    [via |-> "rprint", mode |-> "human", form |-> "text", msg |-> <<>>,
     isList |-> FALSE, data |-> [text |-> text]]

\* raise typer.Exit(code), a normal return, an exception nobody catches
Exit(code) == exitCode' = code /\ exc' = "Exit" /\ pc' = "done"
Return == exitCode' = 0 /\ exc' = "none" /\ pc' = "done"
Uncaught(e) == exitCode' = 1 /\ exc' = e /\ pc' = "done"

locals == <<final_title, final_labels, final_body>>
inputs == <<cmd, opts, env>>

\* --------------------------------------------------------------- ensure_auth
AfterAuth(c) ==
    CASE c \in {"create", "comment", "edit"} -> "body"
      [] c \in {"close", "reopen"} -> "comment_step"
      [] OTHER -> "invoke"

\* variant: the probe's status is ignored
ensure_auth_no_exit ==
    /\ pc = "ensure_auth"
    /\ \E res \in Results({<<>>}, Stderrs) :
         /\ run_gh([NoArgs EXCEPT !.prog = "auth status"], res)
         /\ result' = res
    /\ pc' = AfterAuth(cmd)
    /\ UNCHANGED <<inputs, locals, out, exitCode, exc>>

ensure_auth ==
    /\ pc = "ensure_auth"
    /\ \E res \in Results({<<>>}, Stderrs) :
         /\ run_gh([NoArgs EXCEPT !.prog = "auth status"], res)
         /\ result' = res
         /\ IF res.returncode # 0
            THEN /\ out' = Append(out, rprint("gh not authenticated. Run: gh auth login"))
                 /\ Exit(1)
            ELSE /\ pc' = AfterAuth(cmd)
                 /\ UNCHANGED <<out, exitCode, exc>>
    /\ UNCHANGED <<inputs, locals>>

\* ------------------------------------------------------------------ comment
\* variant: the body file is consulted before standard input
comment_body_file_first ==
    /\ pc = "body" /\ cmd = "comment"
    /\ IF Truthy(opts.body_file) /\ env.fileStatus = "readable"
       THEN final_body' = env.fileContent
       ELSE IF opts.body_stdin THEN final_body' = env.stdin
       ELSE final_body' = opts.body
    /\ pc' = "check_body"
    /\ UNCHANGED <<inputs, calls, result, out, exitCode, exc, final_title, final_labels>>

comment_body ==
    /\ pc = "body" /\ cmd = "comment"
    /\ IF opts.body_stdin
       THEN /\ final_body' = env.stdin
            /\ pc' = "check_body"
            /\ UNCHANGED <<out, exitCode, exc>>
       ELSE IF Truthy(opts.body_file)
       THEN CASE env.fileStatus = "readable" ->
                   /\ final_body' = env.fileContent
                   /\ pc' = "check_body"
                   /\ UNCHANGED <<out, exitCode, exc>>
              [] env.fileStatus = "missing" ->
                   /\ final_body' = opts.body
                   /\ out' = Append(out, output([error |-> <<"File not found: ", opts.body_file>>],
                                                FALSE, opts.output_fmt, <<>>))
                   /\ Exit(1)
              [] OTHER ->
                   /\ final_body' = opts.body
                   /\ Uncaught("OSError")
                   /\ UNCHANGED out
       ELSE /\ final_body' = opts.body
            /\ pc' = "check_body"
            /\ UNCHANGED <<out, exitCode, exc>>
    /\ UNCHANGED <<inputs, calls, result, final_title, final_labels>>

\* variant: the resolved body is not checked for emptiness
comment_check_skipped ==
    /\ pc = "check_body" /\ cmd = "comment"
    /\ pc' = "invoke"
    /\ UNCHANGED <<inputs, calls, result, out, exitCode, exc, locals>>

comment_check ==
    /\ pc = "check_body" /\ cmd = "comment"
    /\ IF ~Truthy(final_body)
       THEN /\ out' = Append(out, output([error |-> <<"No body provided. Use --body, --body-file, or --stdin">>],
                                         FALSE, opts.output_fmt, <<>>))
            /\ Exit(1)
       ELSE /\ pc' = "invoke"
            /\ UNCHANGED <<out, exitCode, exc>>
    /\ UNCHANGED <<inputs, calls, result, locals>>

\* variant: the inline text, when given, is what is sent
comment_invoke_inline ==
    /\ pc = "invoke" /\ cmd = "comment"
    /\ \E res \in Results({<<>>}, Stderrs) :
         /\ run_gh([NoArgs EXCEPT !.prog = "issue comment",
                                  !.number = opts.issue_number,
                                  !.body = IF Truthy(opts.body) THEN opts.body
                                           ELSE final_body], res)
         /\ result' = res
    /\ pc' = "finish"
    /\ UNCHANGED <<inputs, out, exitCode, exc, locals>>

comment_invoke ==
    /\ pc = "invoke" /\ cmd = "comment"
    /\ \E res \in Results({<<>>}, Stderrs) :
         /\ run_gh([NoArgs EXCEPT !.prog = "issue comment",
                                  !.number = opts.issue_number,
                                  !.body = final_body], res)
         /\ result' = res
    /\ pc' = "finish"
    /\ UNCHANGED <<inputs, out, exitCode, exc, locals>>

\* variant: a failed comment call is made once more instead of being reported
comment_finish_retry ==
    /\ pc = "finish" /\ cmd = "comment"
    /\ IF result.returncode # 0 /\ Len(calls) < 3
       THEN /\ pc' = "invoke"
            /\ UNCHANGED <<out, exitCode, exc>>
       ELSE /\ out' = Append(out, output([success |-> TRUE,
                                          issue_number |-> opts.issue_number,
                                          action |-> "commented"],
                                         FALSE, opts.output_fmt,
                                         <<"Commented on #", opts.issue_number>>))
            /\ Return
    /\ UNCHANGED <<inputs, calls, result, locals>>

comment_finish ==
    /\ pc = "finish" /\ cmd = "comment"
    /\ IF result.returncode # 0
       THEN /\ out' = Append(out, output([error |-> <<"Failed to comment on #", opts.issue_number>>],
                                         FALSE, opts.output_fmt, <<>>))
            /\ Exit(1)
       ELSE /\ out' = Append(out, output([success |-> TRUE,
                                          issue_number |-> opts.issue_number,
                                          action |-> "commented"],
                                         FALSE, opts.output_fmt,
                                         <<"Commented on #", opts.issue_number>>))
            /\ Return
    /\ UNCHANGED <<inputs, calls, result, locals>>

comment == comment_body \/ comment_check \/ comment_invoke \/ comment_finish

\* ------------------------------------------------------------------- create
CreateStdouts == { <<>>, <<"h", "/", "7", " ">> }

Unknown == <<"u", "n", "k", "n", "o", "w", "n">>

create_body ==
    /\ pc = "body" /\ cmd = "create"
    /\ final_title' = opts.title
    /\ final_labels' = IF Truthy(opts.labels) THEN Split(opts.labels, ",") ELSE <<>>
    /\ LET inline == IF Truthy(opts.body) THEN opts.body ELSE <<>>
       IN  IF Truthy(opts.body_file)
           THEN CASE env.fileStatus = "readable" ->
                       /\ final_body' = env.fileContent
                       /\ pc' = "template"
                       /\ UNCHANGED <<out, exitCode, exc>>
                  [] env.fileStatus = "missing" ->
                       /\ final_body' = inline
                       /\ out' = Append(out, output([error |-> <<"File not found: ", opts.body_file>>],
                                                    FALSE, opts.output_fmt, <<>>))
                       /\ Exit(1)
                  [] OTHER ->
                       /\ final_body' = inline
                       /\ Uncaught("OSError")
                       /\ UNCHANGED out
           ELSE /\ final_body' = inline
                /\ pc' = "template"
                /\ UNCHANGED <<out, exitCode, exc>>
    /\ UNCHANGED <<inputs, calls, result>>

\* variant: the template's labels are not added
create_template_no_labels ==
    /\ pc = "template" /\ cmd = "create"
    /\ IF opts.issue_type # NoType /\ opts.issue_type # "custom"
       THEN /\ final_title' = Strip(TemplateGet(opts.issue_type).title_prefix
                                    \o <<" ">> \o opts.title)
            /\ UNCHANGED final_labels
       ELSE UNCHANGED <<final_title, final_labels>>
    /\ pc' = "invoke"
    /\ UNCHANGED <<inputs, calls, result, out, exitCode, exc, final_body>>

create_template ==
    /\ pc = "template" /\ cmd = "create"
    /\ IF opts.issue_type # NoType /\ opts.issue_type # "custom"
       THEN LET template == TemplateGet(opts.issue_type)
                prefix == template.title_prefix
            IN  /\ final_title' = Strip(prefix \o <<" ">> \o opts.title)
                /\ final_labels' = final_labels \o template.labels
       ELSE UNCHANGED <<final_title, final_labels>>
    /\ pc' = "invoke"
    /\ UNCHANGED <<inputs, calls, result, out, exitCode, exc, final_body>>

\* variant: the labels are passed without label.strip()
create_invoke_unstripped ==
    /\ pc = "invoke" /\ cmd = "create"
    /\ \E order \in Orderings(Range(final_labels)) :
       \E res \in Results(CreateStdouts, Stderrs) :
         /\ run_gh([NoArgs EXCEPT !.prog = "issue create",
                                  !.title = final_title,
                                  !.body = final_body,
                                  !.labels = order,
                                  !.assignee = IF Truthy(opts.assignee)
                                               THEN opts.assignee ELSE None],
                   res)
         /\ result' = res
    /\ pc' = "finish"
    /\ UNCHANGED <<inputs, out, exitCode, exc, locals>>

create_invoke ==
    /\ pc = "invoke" /\ cmd = "create"
    /\ \E order \in Orderings(Range(final_labels)) :
       \E res \in Results(CreateStdouts, Stderrs) :
         /\ run_gh([NoArgs EXCEPT !.prog = "issue create",
                                  !.title = final_title,
                                  !.body = final_body,
                                  !.labels = [i \in 1..Len(order) |-> Strip(order[i])],
                                  !.assignee = IF Truthy(opts.assignee)
                                               THEN opts.assignee ELSE None],
                   res)
         /\ result' = res
    /\ pc' = "finish"
    /\ UNCHANGED <<inputs, out, exitCode, exc, locals>>

create_finish ==
    /\ pc = "finish" /\ cmd = "create"
    /\ IF result.returncode # 0
       THEN /\ out' = Append(out, output([error |-> <<"Failed to create issue">>,
                                          details |-> Strip(result.stderr)],
                                         FALSE, opts.output_fmt, <<>>))
            /\ Exit(1)
       ELSE LET url == Strip(result.stdout)
                issue_num == IF url # <<>> THEN Last(Split(url, "/")) ELSE Unknown
            IN  /\ out' = Append(out, output([success |-> TRUE,
                                              issue_number |-> issue_num,
                                              url |-> url],
                                             FALSE, opts.output_fmt,
                                             <<"Created #", issue_num>>))
                /\ Return
    /\ UNCHANGED <<inputs, calls, result, locals>>

create == create_body \/ create_template \/ create_invoke \/ create_finish

\* ---------------------------------------------------------- close and reopen
\* the optional comment of close and reopen: its result is dropped
\* variant: the comment is made with check=True
comment_step_checked ==
    /\ pc = "comment_step" /\ cmd \in {"close", "reopen"}
    /\ IF Truthy(opts.comment)
       THEN \E res \in Results({<<>>}, Stderrs) :
              /\ run_gh([NoArgs EXCEPT !.prog = "issue comment",
                                       !.number = opts.issue_number,
                                       !.body = opts.comment], res)
              /\ IF res.returncode # 0
                 THEN Exit(1)
                 ELSE pc' = "invoke" /\ UNCHANGED <<exitCode, exc>>
       ELSE pc' = "invoke" /\ UNCHANGED <<calls, exitCode, exc>>
    /\ UNCHANGED <<inputs, result, out, locals>>

comment_step ==
    /\ pc = "comment_step" /\ cmd \in {"close", "reopen"}
    /\ IF Truthy(opts.comment)
       THEN \E res \in Results({<<>>}, Stderrs) :
              run_gh([NoArgs EXCEPT !.prog = "issue comment",
                                    !.number = opts.issue_number,
                                    !.body = opts.comment], res)
       ELSE UNCHANGED calls
    /\ pc' = "invoke"
    /\ UNCHANGED <<inputs, result, out, exitCode, exc, locals>>

close_invoke ==
    /\ pc = "invoke" /\ cmd = "close"
    /\ \E res \in Results({<<>>}, Stderrs) :
         /\ run_gh([NoArgs EXCEPT !.prog = "issue close",
                                  !.number = opts.issue_number,
                                  !.reason = opts.reason], res)
         /\ result' = res
    /\ pc' = "finish"
    /\ UNCHANGED <<inputs, out, exitCode, exc, locals>>

\* variant: the error branch does not raise
close_finish_no_raise ==
    /\ pc = "finish" /\ cmd = "close"
    /\ IF result.returncode # 0
       THEN out' = Append(out, output([error |-> <<"Failed to close #", opts.issue_number>>],
                                      FALSE, opts.output_fmt, <<>>))
       ELSE out' = Append(out, output([success |-> TRUE,
                                       issue_number |-> opts.issue_number,
                                       reason |-> opts.reason],
                                      FALSE, opts.output_fmt,
                                      <<"Closed #", opts.issue_number>>))
    /\ Return
    /\ UNCHANGED <<inputs, calls, result, locals>>

close_finish ==
    /\ pc = "finish" /\ cmd = "close"
    /\ IF result.returncode # 0
       THEN /\ out' = Append(out, output([error |-> <<"Failed to close #", opts.issue_number>>],
                                         FALSE, opts.output_fmt, <<>>))
            /\ Exit(1)
       ELSE /\ out' = Append(out, output([success |-> TRUE,
                                          issue_number |-> opts.issue_number,
                                          reason |-> opts.reason],
                                         FALSE, opts.output_fmt,
                                         <<"Closed #", opts.issue_number>>))
            /\ Return
    /\ UNCHANGED <<inputs, calls, result, locals>>

close == close_invoke \/ close_finish

reopen_invoke ==
    /\ pc = "invoke" /\ cmd = "reopen"
    /\ \E res \in Results({<<>>}, Stderrs) :
         /\ run_gh([NoArgs EXCEPT !.prog = "issue reopen",
                                  !.number = opts.issue_number], res)
         /\ result' = res
    /\ pc' = "finish"
    /\ UNCHANGED <<inputs, out, exitCode, exc, locals>>

reopen_finish ==
    /\ pc = "finish" /\ cmd = "reopen"
    /\ IF result.returncode # 0
       THEN /\ out' = Append(out, output([error |-> <<"Failed to reopen #", opts.issue_number>>],
                                         FALSE, opts.output_fmt, <<>>))
            /\ Exit(1)
       ELSE /\ out' = Append(out, output([success |-> TRUE,
                                          issue_number |-> opts.issue_number,
                                          action |-> "reopened"],
                                         FALSE, opts.output_fmt,
                                         <<"Reopened #", opts.issue_number>>))
            /\ Return
    /\ UNCHANGED <<inputs, calls, result, locals>>

reopen == reopen_invoke \/ reopen_finish

\* --------------------------------------------------------------------- edit
\* variant: a missing file falls back to the inline text
edit_body_fallback ==
    /\ pc = "body" /\ cmd = "edit"
    /\ IF Truthy(opts.body_file) /\ env.fileStatus = "readable"
       THEN final_body' = env.fileContent
       ELSE final_body' = opts.body
    /\ pc' = "args"
    /\ UNCHANGED <<inputs, calls, result, out, exitCode, exc, final_title, final_labels>>

edit_body ==
    /\ pc = "body" /\ cmd = "edit"
    /\ IF Truthy(opts.body_file)
       THEN CASE env.fileStatus = "readable" ->
                   /\ final_body' = env.fileContent
                   /\ pc' = "args"
                   /\ UNCHANGED <<out, exitCode, exc>>
              [] env.fileStatus = "missing" ->
                   /\ final_body' = opts.body
                   /\ out' = Append(out, output([error |-> <<"File not found: ", opts.body_file>>],
                                                FALSE, opts.output_fmt, <<>>))
                   /\ Exit(1)
              [] OTHER ->
                   /\ final_body' = opts.body
                   /\ Uncaught("OSError")
                   /\ UNCHANGED out
       ELSE /\ final_body' = opts.body
            /\ pc' = "args"
            /\ UNCHANGED <<out, exitCode, exc>>
    /\ UNCHANGED <<inputs, calls, result, final_title, final_labels>>

\* args of edit: an option is appended only when its value is truthy
Given(v) == IF Truthy(v) THEN v ELSE None

EditArgs ==
    [NoArgs EXCEPT !.prog = "issue edit",
                   !.number = opts.issue_number,
                   !.title = Given(opts.title),
                   !.body = Given(final_body),
                   !.add_label = Given(opts.add_labels),
                   !.remove_label = Given(opts.remove_labels),
                   !.add_assignee = Given(opts.add_assignee)]

\* len(args)
EditArgsLen ==
    3 + 2 * Cardinality({ k \in {"title", "body", "add_label", "remove_label",
                                 "add_assignee"} : EditArgs[k] # None })

\* variant: no check for an empty change
edit_args_no_check ==
    /\ pc = "args" /\ cmd = "edit"
    /\ pc' = "invoke"
    /\ UNCHANGED <<inputs, calls, result, locals, out, exitCode, exc>>

edit_args ==
    /\ pc = "args" /\ cmd = "edit"
    /\ IF EditArgsLen = 3
       THEN /\ out' = Append(out, rprint("No changes specified."))
            /\ Exit(0)
       ELSE /\ pc' = "invoke"
            /\ UNCHANGED <<out, exitCode, exc>>
    /\ UNCHANGED <<inputs, calls, result, locals>>

edit_invoke ==
    /\ pc = "invoke" /\ cmd = "edit"
    /\ \E res \in Results({<<>>}, Stderrs) :
         /\ run_gh(EditArgs, res)
         /\ result' = res
    /\ pc' = "finish"
    /\ UNCHANGED <<inputs, out, exitCode, exc, locals>>

\* variant: the status of the edit call is not looked at
edit_finish_unchecked ==
    /\ pc = "finish" /\ cmd = "edit"
    /\ out' = Append(out, output([success |-> TRUE,
                                  issue_number |-> opts.issue_number,
                                  action |-> "edited"],
                                 FALSE, opts.output_fmt,
                                 <<"Edited #", opts.issue_number>>))
    /\ Return
    /\ UNCHANGED <<inputs, calls, result, locals>>

edit_finish ==
    /\ pc = "finish" /\ cmd = "edit"
    /\ IF result.returncode # 0
       THEN /\ out' = Append(out, output([error |-> <<"Failed to edit #", opts.issue_number>>],
                                         FALSE, opts.output_fmt, <<>>))
            /\ Exit(1)
       ELSE /\ out' = Append(out, output([success |-> TRUE,
                                          issue_number |-> opts.issue_number,
                                          action |-> "edited"],
                                         FALSE, opts.output_fmt,
                                         <<"Edited #", opts.issue_number>>))
            /\ Return
    /\ UNCHANGED <<inputs, calls, result, locals>>

edit == edit_body \/ edit_args \/ edit_invoke \/ edit_finish

\* ------------------------------------------------- what the backend returns
\* the standard output of a gh --json query: empty, text json.loads
\* rejects, or a JSON document (held parsed)
Json(v) == [kind |-> "json", value |-> v]
EmptyStdout == [kind |-> "empty", value |-> <<>>]
InvalidStdout == [kind |-> "invalid", value |-> <<>>]

SeqsUpTo(S, n) == UNION { [1..k -> S] : k \in 0..n }

Stamp == <<"2", "0", "2", "4", "-", "0", "1", "-", "0", "2", "T", "0", "3",
           ":", "0", "4", ":", "0", "5", "Z">>

\* the issue objects of a gh answer: one with every requested field, one
\* without the fields the code reads with .get
BackendIssues ==
    { [number |-> 1, title |-> <<"A">>, state |-> "OPEN",
       labels |-> << [name |-> <<"a">>], [name |-> <<"b">>] >>,
       author |-> [login |-> <<"u">>], createdAt |-> Stamp,
       updatedAt |-> Stamp, assignees |-> <<>>],
      [number |-> 2, title |-> <<"B">>, state |-> "CLOSED",
       updatedAt |-> Stamp, assignees |-> <<>>] }

BackendComments ==
    { [author |-> [login |-> <<"u">>], body |-> <<"x">>, url |-> <<"h">>],
      [author |-> [login |-> <<"w">>], body |-> <<>>, url |-> <<"h">>] }

BackendLabels ==
    { [name |-> <<"a">>, description |-> <<"d">>, color |-> <<"c">>],
      [name |-> <<"b">>, description |-> <<>>, color |-> <<"c">>] }

ListStdouts ==
    { EmptyStdout, InvalidStdout }
    \cup { Json(q) : q \in SeqsUpTo(BackendIssues, MaxItems) }

\* gh returns the comments field only when --json names it
ViewStdouts(withComments) ==
    { EmptyStdout, InvalidStdout }
    \cup { Json([number |-> opts.issue_number, title |-> <<"A">>, state |-> "OPEN",
                 body |-> b, labels |-> << [name |-> <<"a">>] >>,
                 author |-> [login |-> <<"u">>], assignees |-> <<>>,
                 createdAt |-> Stamp, updatedAt |-> Stamp, url |-> <<"h">>,
                 comments |-> c]) :
             b \in {<<>>, <<"x">>},
             c \in IF withComments THEN SeqsUpTo(BackendComments, MaxItems)
                   ELSE { <<>> } }

LabelStdouts ==
    { EmptyStdout, InvalidStdout }
    \cup { Json(q) : q \in SeqsUpTo(BackendLabels, MaxItems) }

RepoStdouts ==
    { EmptyStdout, InvalidStdout,
      Json([name |-> <<"r">>, owner |-> [login |-> <<"o">>], url |-> <<"h">>]) }

\* sep.join(q)
RECURSIVE Join(_, _)
Join(sep, q) ==
    IF q = <<>> THEN <<>>
    ELSE IF Len(q) = 1 THEN q[1]
    ELSE q[1] \o sep \o Join(sep, Tail(q))

\* variant: the whole timestamp is kept
Take_whole(s, n) == s

\* s[:n]
Take(s, n) == SubSeq(s, 1, IF Len(s) < n THEN Len(s) ELSE n)

\* d.get(k, default)
Get(d, k, default) == IF k \in DOMAIN d THEN d[k] ELSE default

\* i.get("author", {}).get("login", "")
AuthorLogin(i) ==
    IF "author" \in DOMAIN i THEN Get(i.author, "login", <<>>) ELSE <<>>

LabelNames(ls) == Join(<<",", " ">>, [k \in 1..Len(ls) |-> ls[k].name])

\* ---------------------------------------------------------- list and search
list_invoke ==
    /\ pc = "invoke" /\ cmd = "list"
    /\ \E res \in Results(ListStdouts, Stderrs) :
         /\ run_gh([NoArgs EXCEPT !.prog = "issue list",
                                  !.label = Given(opts.labels),
                                  !.assignee = Given(opts.assignee)], res)
         /\ result' = res
    /\ pc' = "finish"
    /\ UNCHANGED <<inputs, out, exitCode, exc, locals>>

list_finish ==
    /\ pc = "finish" /\ cmd = "list"
    /\ IF result.returncode # 0
       THEN /\ out' = Append(out, output([error |-> <<"Failed to list issues">>,
                                          details |-> Strip(result.stderr)],
                                         FALSE, opts.output_fmt, <<>>))
            /\ Exit(1)
       ELSE IF result.stdout.kind = "invalid"
       THEN /\ Uncaught("JSONDecodeError")
            /\ UNCHANGED out
       ELSE LET issues == result.stdout.value
                formatted ==
                    [k \in 1..Len(issues) |->
                       [number |-> issues[k].number,
                        title |-> issues[k].title,
                        state |-> issues[k].state,
                        labels |-> LabelNames(Get(issues[k], "labels", <<>>)),
                        author |-> AuthorLogin(issues[k]),
                        created |-> Take(Get(issues[k], "createdAt", <<>>), 10)]]
            IN  /\ out' = Append(out, output(formatted, TRUE, opts.output_fmt, <<>>))
                /\ Return
    /\ UNCHANGED <<inputs, calls, result, locals>>

list == list_invoke \/ list_finish

search_invoke ==
    /\ pc = "invoke" /\ cmd = "search"
    /\ \E res \in Results(ListStdouts, Stderrs) :
         /\ run_gh([NoArgs EXCEPT !.prog = "issue list --search"], res)
         /\ result' = res
    /\ pc' = "finish"
    /\ UNCHANGED <<inputs, out, exitCode, exc, locals>>

search_finish ==
    /\ pc = "finish" /\ cmd = "search"
    /\ IF result.returncode # 0
       THEN /\ out' = Append(out, output([error |-> <<"Search failed">>],
                                         FALSE, opts.output_fmt, <<>>))
            /\ Exit(1)
       ELSE IF result.stdout.kind = "invalid"
       THEN /\ Uncaught("JSONDecodeError")
            /\ UNCHANGED out
       ELSE LET issues == result.stdout.value
                formatted ==
                    [k \in 1..Len(issues) |->
                       [number |-> issues[k].number,
                        title |-> issues[k].title,
                        state |-> issues[k].state,
                        labels |-> LabelNames(Get(issues[k], "labels", <<>>)),
                        created |-> Take(Get(issues[k], "createdAt", <<>>), 10)]]
            IN  /\ out' = Append(out, output(formatted, TRUE, opts.output_fmt, <<>>))
                /\ Return
    /\ UNCHANGED <<inputs, calls, result, locals>>

search == search_invoke \/ search_finish

\* --------------------------------------------------------------------- view
view_invoke ==
    /\ pc = "invoke" /\ cmd = "view"
    /\ \E res \in Results(ViewStdouts(opts.comments), Stderrs) :
         /\ run_gh([NoArgs EXCEPT !.prog = "issue view",
                                  !.number = opts.issue_number,
                                  !.comments = opts.comments], res)
         /\ result' = res
    /\ pc' = "finish"
    /\ UNCHANGED <<inputs, out, exitCode, exc, locals>>

\* variant: the backend's comment objects are forwarded as they are
view_finish_raw_comments ==
    /\ pc = "finish" /\ cmd = "view"
    /\ IF result.returncode # 0
       THEN /\ out' = Append(out, output([error |-> <<"Failed to view issue #", opts.issue_number>>],
                                         FALSE, opts.output_fmt, <<>>))
            /\ Exit(1)
       ELSE IF result.stdout.kind # "json"
       THEN /\ Uncaught("JSONDecodeError")
            /\ UNCHANGED out
       ELSE LET issue == result.stdout.value
                base == [number |-> issue.number,
                         title |-> issue.title,
                         state |-> issue.state,
                         url |-> issue.url,
                         author |-> issue.author.login,
                         labels |-> LabelNames(issue.labels),
                         created |-> issue.createdAt,
                         body |-> issue.body]
                formatted ==
                    IF opts.comments
                    THEN [k \in DOMAIN base \cup {"comments"} |->
                            IF k = "comments"
                            THEN issue.comments
                            ELSE base[k]]
                    ELSE base
            IN  /\ out' = Append(out, output(formatted, FALSE, opts.output_fmt, <<>>))
                /\ Return
    /\ UNCHANGED <<inputs, calls, result, locals>>

view_finish ==
    /\ pc = "finish" /\ cmd = "view"
    /\ IF result.returncode # 0
       THEN /\ out' = Append(out, output([error |-> <<"Failed to view issue #", opts.issue_number>>],
                                         FALSE, opts.output_fmt, <<>>))
            /\ Exit(1)
       ELSE IF result.stdout.kind # "json"
       THEN /\ Uncaught("JSONDecodeError")
            /\ UNCHANGED out
       ELSE LET issue == result.stdout.value
                base == [number |-> issue.number,
                         title |-> issue.title,
                         state |-> issue.state,
                         url |-> issue.url,
                         author |-> issue.author.login,
                         labels |-> LabelNames(issue.labels),
                         created |-> issue.createdAt,
                         body |-> issue.body]
                formatted ==
                    IF opts.comments
                    THEN [k \in DOMAIN base \cup {"comments"} |->
                            IF k = "comments"
                            THEN [j \in 1..Len(issue.comments) |->
                                    [author |-> issue.comments[j].author.login,
                                     body |-> issue.comments[j].body]]
                            ELSE base[k]]
                    ELSE base
            IN  /\ out' = Append(out, output(formatted, FALSE, opts.output_fmt, <<>>))
                /\ Return
    /\ UNCHANGED <<inputs, calls, result, locals>>

view == view_invoke \/ view_finish

\* ------------------------------------------------------------------- labels
labels_invoke ==
    /\ pc = "invoke" /\ cmd = "labels"
    /\ \E res \in Results(LabelStdouts, Stderrs) :
         /\ run_gh([NoArgs EXCEPT !.prog = "label list"], res)
         /\ result' = res
    /\ pc' = "finish"
    /\ UNCHANGED <<inputs, out, exitCode, exc, locals>>

labels_finish ==
    /\ pc = "finish" /\ cmd = "labels"
    /\ IF result.returncode # 0
       THEN /\ out' = Append(out, output([error |-> <<"Failed to list labels">>],
                                         FALSE, opts.output_fmt, <<>>))
            /\ Exit(1)
       ELSE IF result.stdout.kind = "invalid"
       THEN /\ Uncaught("JSONDecodeError")
            /\ UNCHANGED out
       ELSE LET labels_data == result.stdout.value
                formatted ==
                    [k \in 1..Len(labels_data) |->
                       [name |-> labels_data[k].name,
                        description |-> labels_data[k].description]]
            IN  /\ out' = Append(out, output(formatted, TRUE, opts.output_fmt, <<>>))
                /\ Return
    /\ UNCHANGED <<inputs, calls, result, locals>>

labels == labels_invoke \/ labels_finish

\* ------------------------------------------------------------------- status
\* auth = run_gh(["auth", "status"]); its status is kept for the record
status_auth ==
    /\ pc = "status_auth" /\ cmd = "status"
    /\ \E res \in Results({<<>>}, Stderrs) :
         run_gh([NoArgs EXCEPT !.prog = "auth status"], res)
    /\ pc' = "status_repo"
    /\ UNCHANGED <<inputs, result, out, exitCode, exc, locals>>

status_repo ==
    /\ pc = "status_repo" /\ cmd = "status"
    /\ \E res \in Results(RepoStdouts, Stderrs) :
         /\ run_gh([NoArgs EXCEPT !.prog = "repo view"], res)
         /\ result' = res
    /\ pc' = "finish"
    /\ UNCHANGED <<inputs, out, exitCode, exc, locals>>

status_finish ==
    /\ pc = "finish" /\ cmd = "status"
    /\ LET auth == calls[1]
           repo == result
       IN  IF repo.returncode = 0
           THEN IF repo.stdout.kind # "json"
                THEN /\ Uncaught("JSONDecodeError")
                     /\ UNCHANGED out
                ELSE LET r == repo.stdout.value
                     IN  /\ out' = Append(out, output(
                                     [authenticated |-> auth.returncode = 0,
                                      repository |-> r.owner.login \o <<"/">> \o r.name,
                                      url |-> r.url],
                                     FALSE, opts.output_fmt, <<>>))
                         /\ Return
           ELSE /\ out' = Append(out, output(
                            [authenticated |-> auth.returncode = 0,
                             repository |-> None],
                            FALSE, opts.output_fmt, <<>>))
                /\ Return
    /\ UNCHANGED <<inputs, calls, result, locals>>

status == status_auth \/ status_repo \/ status_finish

\* ------------------------------------------------------------------- schema
\* the command names of TOOL_SCHEMA["commands"]; every entry has an example
TOOL_SCHEMA ==
    [commands |-> {"list", "view", "create", "close", "comment", "edit",
                   "search", "labels", "schema"}]

schema ==
    /\ pc = "schema" /\ cmd = "schema"
    /\ out' = Append(out, [via |-> "print", mode |-> "json", form |-> "document",
                           msg |-> <<>>, isList |-> FALSE, data |-> TOOL_SCHEMA])
    /\ Return
    /\ UNCHANGED <<inputs, calls, result, locals>>

Next ==
    \/ ensure_auth
    \/ create
    \/ comment_step
    \/ close
    \/ reopen
    \/ comment
    \/ edit
    \/ list
    \/ view
    \/ search
    \/ labels
    \/ status
    \/ schema

Spec == Init /\ [][Next]_vars

\* a run is one sequential process: its next statement is always executed,
\* every backend call and every read returning
FairSpec == Spec /\ WF_vars(Next)

\* ============================================================== properties
Done == pc = "done"

Progs(q) == [i \in DOMAIN q |-> q[i].args.prog]

\* the invocation a command exists to make
MainProg ==
    [create |-> "issue create", comment |-> "issue comment",
     edit |-> "issue edit", close |-> "issue close", reopen |-> "issue reopen"]

MainCalls == { i \in DOMAIN calls : calls[i].args.prog = MainProg[cmd] }

ProbeOk ==
    /\ calls # <<>>
    /\ calls[1].args.prog = "auth status"
    /\ calls[1].returncode = 0

IsError(r) == r.via = "output" /\ ~r.isList /\ "error" \in DOMAIN r.data

IsSuccess(r) == r.via = "output" /\ ~r.isList /\ "success" \in DOMAIN r.data

FileNotFoundRecord(r) == IsError(r) /\ Head(r.data.error) = "File not found: "

NoBodyRecord(r) ==
    IsError(r) /\ Head(r.data.error) = "No body provided. Use --body, --body-file, or --stdin"

\* --- C1 ---------------------------------------------------------------
\* C1: in comment, when --stdin is given together with a body file and an
\* inline body, every backend comment invocation carries the content read
\* from standard input.
AllThreeSources ==
    cmd = "comment" /\ opts.body_stdin /\ Truthy(opts.body_file) /\ Truthy(opts.body)

C1_StdinWins ==
    AllThreeSources =>
        \A i \in DOMAIN calls :
            calls[i].args.prog = "issue comment" => calls[i].args.body = env.stdin

C1_Witness ==
    /\ AllThreeSources
    /\ env.fileStatus = "readable"
    /\ env.fileContent # env.stdin /\ Truthy(env.fileContent)
    /\ opts.body # env.stdin
    /\ \E i \in DOMAIN calls :
         calls[i].args.prog = "issue comment" /\ calls[i].args.body = env.stdin

\* --- C2 ---------------------------------------------------------------
\* C2: in create, comment (without --stdin) and edit, when --body-file
\* names a readable file, the body of the backend invocation is the file's
\* content, whatever the content and the inline value.
ReadableFileChosen ==
    /\ cmd \in {"create", "comment", "edit"}
    /\ Truthy(opts.body_file)
    /\ env.fileStatus = "readable"
    /\ ~opts.body_stdin

C2_FileBodySent ==
    ReadableFileChosen =>
        \A i \in MainCalls : calls[i].args.body = env.fileContent

\* --- C3 ---------------------------------------------------------------
MissingFileChosen ==
    /\ cmd \in {"create", "comment", "edit"}
    /\ Truthy(opts.body_file)
    /\ env.fileStatus = "missing"
    /\ ~opts.body_stdin

\* C3 as stated: with a missing body file the run ends with exit status 1
\* after a file-not-found record, and no backend call occurs in the run.
C3_NoBackendCallAtAll ==
    (MissingFileChosen /\ Done) =>
        /\ exitCode = 1
        /\ Len(out) = 1 /\ FileNotFoundRecord(out[1]) /\ ~NoBodyRecord(out[1])
        /\ calls = <<>>

\* C3 amended: with a missing body file the only backend call of the run
\* is the authentication probe; when the probe succeeds the run ends with
\* exit status 1 after a file-not-found record, which is not the "No body
\* provided" record; when the probe fails it ends with exit status 1.
C3_MissingFile ==
    MissingFileChosen =>
        /\ \A i \in DOMAIN calls : i = 1 /\ calls[i].args.prog = "auth status"
        /\ Done =>
             /\ exitCode = 1
             /\ Len(calls) = 1
             /\ ProbeOk =>
                  /\ Len(out) = 1
                  /\ FileNotFoundRecord(out[1])
                  /\ ~NoBodyRecord(out[1])

C3_Witness ==
    /\ MissingFileChosen /\ Done /\ ProbeOk
    /\ cmd = "create" /\ Truthy(opts.body)
    /\ Len(out) = 1 /\ FileNotFoundRecord(out[1])
    /\ exitCode = 1

\* --- C4 ---------------------------------------------------------------
BugPrefix == <<"[", "B", "u", "g", "]", " ">>

\* C4: for create with type bug, feature, task or phase, the title of the
\* backend create invocation is the template's prefix, a space and the
\* caller's title, trimmed ("[Bug] " + title for bug), and its labels
\* contain every label of the template ("bug" for bug).
C4_TemplateApplied ==
    (cmd = "create" /\ opts.issue_type \in {"bug", "feature", "task", "phase"}) =>
        \A i \in MainCalls :
            LET a == calls[i].args
                t == TemplateGet(opts.issue_type)
            IN  /\ a.title = Strip(t.title_prefix \o <<" ">> \o opts.title)
                /\ \A k \in DOMAIN t.labels : t.labels[k] \in Range(a.labels)
                /\ opts.issue_type = "bug" =>
                     /\ a.title = Strip(BugPrefix \o opts.title)
                     /\ <<"b", "u", "g">> \in Range(a.labels)

C4_Witness ==
    /\ cmd = "create" /\ opts.issue_type = "bug" /\ opts.labels = None
    /\ opts.title = <<"t">>
    /\ \E i \in MainCalls :
         /\ calls[i].args.title = <<"[", "B", "u", "g", "]", " ", "t">>
         /\ calls[i].args.labels = << <<"b", "u", "g">> >>

\* --- C5 ---------------------------------------------------------------
NoTemplate == cmd = "create" /\ opts.issue_type \in {"custom", NoType}

CallerLabels == IF Truthy(opts.labels) THEN Range(Split(opts.labels, ",")) ELSE {}

\* C5 as stated: for create with type custom or none, the title and the
\* labels of the backend create invocation are the caller's, unmodified.
C5_LabelsUnmodified ==
    NoTemplate =>
        \A i \in MainCalls :
            /\ calls[i].args.title = opts.title
            /\ Range(calls[i].args.labels) = CallerLabels

\* C5 amended: for create with type custom or none, the title is the
\* caller's title unmodified and no template label is added; the labels
\* passed are the caller's comma-separated labels, each with surrounding
\* whitespace removed, identical texts given once.
C5_PassThrough ==
    NoTemplate =>
        \A i \in MainCalls :
            /\ calls[i].args.title = opts.title
            /\ Range(calls[i].args.labels) = { Strip(l) : l \in CallerLabels }
            /\ Len(calls[i].args.labels) = Cardinality(CallerLabels)

C5_Witness ==
    /\ NoTemplate /\ opts.issue_type = "custom"
    /\ opts.title = <<" ", "t">>
    /\ opts.labels = <<" ", "a", ",", "b", "u", "g">>
    /\ \E i \in MainCalls :
         /\ calls[i].args.title = <<" ", "t">>
         /\ Range(calls[i].args.labels) = { <<"a">>, <<"b", "u", "g">> }

\* --- C6 ---------------------------------------------------------------
NoEditOption ==
    /\ cmd = "edit"
    /\ opts.title = None /\ opts.body = None /\ opts.body_file = None
    /\ opts.add_labels = None /\ opts.remove_labels = None
    /\ opts.add_assignee = None

NoChangesNotice(r) == r.via = "rprint" /\ r.data.text = "No changes specified."

\* C6 as stated: edit without any mutating option ends as a notice with
\* exit status 0 and makes zero backend calls.
C6_ZeroBackendCalls ==
    (NoEditOption /\ Done) =>
        /\ exitCode = 0
        /\ Len(out) = 1 /\ NoChangesNotice(out[1])
        /\ calls = <<>>

\* C6 amended: edit without any mutating option makes exactly one backend
\* call, the authentication probe, and never the edit invocation; when the
\* probe succeeds the run prints the "No changes specified" notice and ends
\* with exit status 0; when the probe fails it ends with exit status 1.
C6_NoOpEdit ==
    NoEditOption =>
        /\ \A i \in DOMAIN calls : i = 1 /\ calls[i].args.prog = "auth status"
        /\ Done =>
             /\ Len(calls) = 1
             /\ IF ProbeOk
                THEN exitCode = 0 /\ Len(out) = 1 /\ NoChangesNotice(out[1])
                ELSE exitCode = 1

C6_Witness ==
    /\ NoEditOption /\ Done /\ ProbeOk
    /\ exitCode = 0 /\ Len(out) = 1 /\ NoChangesNotice(out[1])

\* --- C7 ---------------------------------------------------------------
\* C7: every finished run of a command that accepts an output mode has
\* rendered exactly one record, through output, in the mode chosen for the
\* run; in structured mode nothing is rendered in human form.
C7_OneRecordInChosenMode ==
    (Done /\ cmd # "schema" /\ exc \in {"none", "Exit"}) =>
        /\ Len(out) = 1
        /\ out[1].mode = opts.output_fmt

\* --- C8 ---------------------------------------------------------------
\* the comment invocation of close and reopen, whose status is dropped
BestEffort(i) ==
    cmd \in {"close", "reopen"} /\ calls[i].args.prog = "issue comment"

BackendFailure ==
    \E i \in DOMAIN calls : calls[i].returncode # 0 /\ ~BestEffort(i)

ResolutionFailure ==
    \/ \E k \in DOMAIN out : FileNotFoundRecord(out[k]) \/ NoBodyRecord(out[k])
    \/ exc = "OSError"

SuccessRendered ==
    /\ Len(out) = 1
    /\ \/ out[1].via = "output" /\ ~IsError(out[1])
       \/ out[1].via = "print"

CommentCalls == { i \in DOMAIN calls : calls[i].args.prog = "issue comment" }

\* C9: in close and reopen with a comment, the comment invocation comes
\* before the close/reopen invocation, the close/reopen invocation is made
\* whatever the comment invocation returned, and the outcome is that of
\* the close/reopen invocation alone.
C9_CommentThenClose ==
    (cmd \in {"close", "reopen"} /\ Truthy(opts.comment)) =>
        /\ \A i \in CommentCalls : \A j \in MainCalls : i < j
        /\ (ProbeOk /\ pc \in {"invoke", "finish", "done"}) =>
             Cardinality(CommentCalls) = 1
        /\ (CommentCalls # {} /\ pc \in {"finish", "done"}) =>
             Cardinality(MainCalls) = 1
        /\ Done =>
             \A j \in MainCalls :
                 /\ Len(out) = 1
                 /\ IF calls[j].returncode = 0
                    THEN exitCode = 0 /\ IsSuccess(out[1])
                    ELSE exitCode = 1 /\ IsError(out[1])

C9_Witness ==
    /\ Done /\ cmd = "reopen" /\ Truthy(opts.comment)
    /\ Len(calls) = 3
    /\ calls[2].args.prog = "issue comment" /\ calls[2].returncode # 0
    /\ calls[3].args.prog = "issue reopen" /\ calls[3].returncode = 0
    /\ exitCode = 0 /\ IsSuccess(out[1])

\* --- C10 --------------------------------------------------------------
\* C10: in the nine commands that start with ensure_auth the probe is the
\* first backend call, and after a failed probe no other call is made and
\* the run ends with exit status 1; status makes its repository query
\* after a failed probe as well; schema makes no backend call.
C10_ProbeFirst ==
    /\ cmd \in AuthCommands =>
         /\ calls # <<>> => calls[1].args.prog = "auth status"
         /\ \A i \in DOMAIN calls : i > 1 => calls[i].args.prog # "auth status"
         /\ (calls # <<>> /\ calls[1].returncode # 0) =>
              Len(calls) = 1 /\ Done /\ exitCode = 1
         /\ Len(calls) > 1 => calls[1].returncode = 0
    /\ cmd = "status" =>
         (pc \in {"finish", "done"} =>
              /\ Len(calls) = 2
              /\ calls[1].args.prog = "auth status"
              /\ calls[2].args.prog = "repo view")
    /\ cmd = "schema" => calls = <<>>

C10_Witness ==
    /\ cmd = "view" /\ Done
    /\ Len(calls) = 1 /\ calls[1].args.prog = "auth status"
    /\ calls[1].returncode # 0
    /\ exitCode = 1

\* --- C11 --------------------------------------------------------------
\* the commands that render an error record for a failed invocation, and
\* the invocation each of them makes after the probe
InvokingProg ==
    [list |-> "issue list", view |-> "issue view", create |-> "issue create",
     close |-> "issue close", reopen |-> "issue reopen",
     comment |-> "issue comment", edit |-> "issue edit",
     search |-> "issue list --search", labels |-> "label list"]

InvokingCalls ==
    IF cmd \in DOMAIN InvokingProg
    THEN { i \in DOMAIN calls : i > 1 /\ calls[i].args.prog = InvokingProg[cmd]
                                /\ ~BestEffort(i) }
    ELSE {}

\* C11: when the backend invocation of a command returns a non-zero status
\* the run renders one error record, which carries the backend's standard
\* error text whenever that text is not empty, ends with exit status 1,
\* and has invoked the backend for it once only.
C11_DiagnosticRendered ==
    (Done /\ \E i \in InvokingCalls : calls[i].returncode # 0) =>
        /\ exitCode = 1
        /\ Cardinality(InvokingCalls) = 1
        /\ Len(out) = 1 /\ IsError(out[1])
        /\ Strip(result.stderr) # <<>> =>
             /\ "details" \in DOMAIN out[1].data
             /\ out[1].data.details = Strip(result.stderr)

\* --- C12 --------------------------------------------------------------
ViewKeys ==
    {"number", "title", "state", "url", "author", "labels", "created", "body"}

SummaryKeys ==
    [list |-> {"number", "title", "state", "labels", "author", "created"},
     search |-> {"number", "title", "state", "labels", "created"}]

\* C13: a successful list or search renders one summary per backend issue,
\* in the backend's order; every summary has the command's fixed key set
\* whatever fields the backend object has, and its created value is the
\* first 10 characters of the backend's createdAt.
C13_SummaryShape ==
    (Done /\ cmd \in {"list", "search"} /\ exc = "none") =>
        /\ Len(out) = 1 /\ out[1].isList
        /\ LET d == out[1].data
               issues == result.stdout.value
           IN  /\ Len(d) = Len(issues)
               /\ \A k \in DOMAIN d :
                    /\ DOMAIN d[k] = SummaryKeys[cmd]
                    /\ d[k].number = issues[k].number
                    /\ d[k].title = issues[k].title
                    /\ Len(d[k].created) <= 10
                    /\ "createdAt" \in DOMAIN issues[k] =>
                         /\ Len(d[k].created) = 10
                         /\ \A c \in 1..10 : d[k].created[c] = issues[k].createdAt[c]

C13_Witness ==
    /\ Done /\ cmd = "list" /\ exc = "none"
    /\ Len(out[1].data) = 2
    /\ out[1].data[1].number = 2 /\ out[1].data[2].number = 1
    /\ out[1].data[1].created = <<>>
    /\ out[1].data[2].created = <<"2", "0", "2", "4", "-", "0", "1", "-", "0", "2">>
    /\ "updatedAt" \in DOMAIN result.stdout.value[2]

\* --- C14 --------------------------------------------------------------
NothingListed ==
    /\ Done /\ cmd \in {"list", "search", "labels"} /\ exc = "none"
    /\ result.stdout.value = <<>>

\* C14: when list, search or labels succeeds with no items or with empty
\* output, human mode prints the "no results" notice and no table, and
\* structured mode prints the empty sequence as a document; no table is
\* ever rendered for an empty sequence.
C14_EmptySequence ==
    /\ NothingListed =>
         /\ Len(out) = 1 /\ out[1].via = "output" /\ out[1].isList
         /\ out[1].data = <<>>
         /\ opts.output_fmt = "human" => out[1].form = "no_results"
         /\ opts.output_fmt = "json" =>
              out[1].form = "document" /\ out[1].mode = "json"
    /\ \A k \in DOMAIN out :
         out[k].form = "table" => (out[k].isList /\ out[k].data # <<>>)

C14_Witness ==
    /\ NothingListed /\ cmd = "search"
    /\ result.stdout.kind = "empty"
    /\ opts.output_fmt = "human"
    /\ out[1].form = "no_results"

\* --- C15 --------------------------------------------------------------
\* C15: for create with any label text and any type, no label value occurs
\* more than once among the --label arguments of the backend create
\* invocation.
C15_NoDuplicateLabels ==
    cmd = "create" =>
        \A i \in MainCalls :
            \A j, k \in DOMAIN calls[i].args.labels :
                calls[i].args.labels[j] = calls[i].args.labels[k] => j = k

\* --- C16 --------------------------------------------------------------
\* C16: for create with type bug, feature or task, the body of the backend
\* create invocation is the template's body skeleton, placeholders
\* included.
C16_SkeletonSent ==
    (cmd = "create" /\ opts.issue_type \in DOMAIN TEMPLATES) =>
        \A i \in MainCalls :
            calls[i].args.body = TEMPLATES[opts.issue_type].body_template

\* --- C17 --------------------------------------------------------------
CloseReasons == {"completed", "not_planned"}

\* C17: the backend close invocation is never made with a reason other
\* than completed or not_planned; a run of close with another reason makes
\* no close invocation.
C17_ReasonValidated ==
    cmd = "close" =>
        /\ \A i \in MainCalls : calls[i].args.reason \in CloseReasons
        /\ opts.reason \notin CloseReasons => MainCalls = {}

\* --- C18 --------------------------------------------------------------
\* C18: the command names of the document emitted by schema are exactly the
\* commands the tool accepts.
C18_SchemaCoversCommands ==
    (Done /\ cmd = "schema") =>
        /\ Len(out) = 1
        /\ out[1].data.commands = Commands

\* --- C19 --------------------------------------------------------------
StatusKeys == {"authenticated", "repository", "url"}

\* C19: whatever the authentication probe and the repository query return,
\* status makes both queries and emits one record with exactly the fields
\* authenticated, repository and url, authenticated being true exactly when
\* the probe returned status 0 (runs ended by an unparseable repository
\* answer are left aside).
C19_StatusRecord ==
    (Done /\ cmd = "status" /\ exc = "none") =>
        /\ Progs(calls) = <<"auth status", "repo view">>
        /\ Len(out) = 1
        /\ DOMAIN out[1].data = StatusKeys
        /\ out[1].data.authenticated = (calls[1].returncode = 0)

\* --- C20 --------------------------------------------------------------
\* the source comment selects yields no body: standard input is empty; or,
\* without --stdin, the body file is read and is empty; or neither is given
\* and the inline body is absent or empty
NoBodyYielded ==
    /\ cmd = "comment"
    /\ IF opts.body_stdin THEN env.stdin = <<>>
       ELSE IF Truthy(opts.body_file)
       THEN env.fileStatus = "readable" /\ env.fileContent = <<>>
       ELSE ~Truthy(opts.body)

\* C20: once authenticated, a comment run whose selected source yields no
\* body renders the 'No body provided' error record, ends with exit status
\* 1 and makes no backend comment call; every backend comment invocation
\* made by comment carries a non-empty body.
C20_NoBodyNoComment ==
    cmd = "comment" =>
        /\ \A i \in MainCalls : Truthy(calls[i].args.body)
        /\ (Done /\ ProbeOk /\ NoBodyYielded) =>
              /\ Len(out) = 1
              /\ NoBodyRecord(out[1])
              /\ exitCode = 1
              /\ MainCalls = {}

\* the selected source (standard input) is empty although an inline body
\* was supplied, and the run ended on the 'No body provided' record
C20_Witness ==
    /\ Done /\ ProbeOk /\ NoBodyYielded
    /\ opts.body_stdin /\ Truthy(opts.body)
    /\ Len(out) = 1 /\ NoBodyRecord(out[1])
    /\ exitCode = 1

\* --- C21 --------------------------------------------------------------
\* the body file is the source the command consults
BodyFileConsulted ==
    /\ cmd \in {"create", "comment", "edit"}
    /\ Truthy(opts.body_file)
    /\ cmd = "comment" => ~opts.body_stdin

\* C21: in create, comment and edit, a body file that exists but cannot be
\* read ends the run as a missing one does: the file-not-found error record
\* is rendered, the exit status is 1, nothing is raised past the command and
\* the command's backend invocation is not made.
C21_UnreadableAsMissing ==
    (Done /\ ProbeOk /\ BodyFileConsulted /\ env.fileStatus = "unreadable") =>
        /\ Len(out) = 1
        /\ FileNotFoundRecord(out[1])
        /\ exitCode = 1
        /\ exc = "Exit"
        /\ MainCalls = {}

\* --- C22 --------------------------------------------------------------
\* the stage a position of the run belongs to: 1 Validating (the
\* authentication preflight), 2 BodyResolving, 3 Templating (and edit's
\* argument assembly), 4 Invoking, 5 Normalizing and Rendering, 6 Done
StageOf(p) ==
    CASE p = "ensure_auth" -> 1
      [] p \in {"body", "check_body"} -> 2
      [] p \in {"template", "args"} -> 3
      [] p \in {"comment_step", "invoke", "status_auth", "status_repo"} -> 4
      [] p \in {"finish", "schema"} -> 5
      [] OTHER -> 6

\* C22 as stated: no backend invocation precedes body resolution.
C22_NoCallBeforeBody ==
    StageOf(pc) = 2 => calls = <<>>

\* C22: a run never moves to an earlier stage; while it resolves the body or
\* applies the template the only backend invocation made so far is the
\* authentication probe; it eventually reaches Done with exit status 0 or 1,
\* and from then on makes no backend call, renders nothing and keeps its
\* exit status.
C22_StagesInOrder ==
    /\ [][StageOf(pc') >= StageOf(pc)]_vars
    /\ [](StageOf(pc) \in {2, 3} => Progs(calls) = <<"auth status">>)
    /\ [](Done <=> exitCode \in {0, 1})
    /\ [][Done => UNCHANGED <<calls, out, exitCode>>]_vars
    /\ <>Done

\* a create run that went through body resolution, templating, invocation
\* and rendering and ended successfully
C22_Witness ==
    /\ Done /\ cmd = "create" /\ exitCode = 0
    /\ Truthy(opts.body_file) /\ opts.issue_type \in DOMAIN TEMPLATES
    /\ Progs(calls) = <<"auth status", "issue create">>
    /\ Len(out) = 1 /\ IsSuccess(out[1])

\* --- C23 --------------------------------------------------------------
MutatingCommands == {"create", "close", "reopen", "comment", "edit"}

\* the part of u after its last "/" (u itself when it has none)
LastSegment(u) ==
    CHOOSE t \in { SubSeq(u, k, Len(u)) : k \in 1..(Len(u) + 1) } :
        /\ "/" \notin Range(t)
        /\ Len(t) < Len(u) => u[Len(u) - Len(t)] = "/"

\* the issue number a success record of this run has to carry
ExpectedNumber ==
    IF cmd = "create"
    THEN IF Strip(result.stdout) = <<>>
         THEN <<"u", "n", "k", "n", "o", "w", "n">>
         ELSE LastSegment(Strip(result.stdout))
    ELSE opts.issue_number

\* C23: in create, close, reopen, comment and edit a success record is
\* rendered only when the last backend invocation is the command's own call
\* and it returned status 0; the record carries the issue number given (for
\* create the last segment of the printed URL, or 'unknown'); no run renders
\* both a success record and an error record.
C23_SuccessOnlyAfterOk ==
    cmd \in MutatingCommands =>
        \A k \in DOMAIN out :
            IsSuccess(out[k]) =>
                /\ calls # <<>>
                /\ calls[Len(calls)].args.prog = MainProg[cmd]
                /\ calls[Len(calls)].returncode = 0
                /\ out[k].data.issue_number = ExpectedNumber
                /\ \A j \in DOMAIN out : ~IsError(out[j])

\* create succeeded and the record carries the number cut from the URL
C23_Witness ==
    /\ Done /\ cmd = "create"
    /\ Len(out) = 1 /\ IsSuccess(out[1])
    /\ result.stdout = <<"h", "/", "7", " ">>
    /\ out[1].data.issue_number = <<"7">>
    /\ calls[Len(calls)].returncode = 0

\* --- C24 --------------------------------------------------------------
StdinRequested == cmd = "comment" /\ opts.body_stdin

\* C24: in comment with --stdin the body file is never opened (no
\* file-not-found record, no error raised by opening it) and the inline text
\* is not used: an authenticated run ends on the 'No body provided' record
\* with exit status 1 when standard input is empty, and otherwise makes the
\* comment call with the standard-input content, whatever the file and the
\* inline text are.
C24_OnlyStdinMatters ==
    StdinRequested =>
        /\ \A k \in DOMAIN out : ~FileNotFoundRecord(out[k])
        /\ exc # "OSError"
        /\ \A i \in MainCalls : calls[i].args.body = env.stdin
        /\ (Done /\ ProbeOk) =>
              IF env.stdin = <<>>
              THEN /\ Len(out) = 1 /\ NoBodyRecord(out[1])
                   /\ exitCode = 1
                   /\ MainCalls = {}
              ELSE /\ Cardinality(MainCalls) = 1
                   /\ exitCode = (IF calls[Len(calls)].returncode = 0 THEN 0 ELSE 1)

\* --stdin together with a path that does not exist: the comment is made
\* with the standard-input content
C24_Witness ==
    /\ Done /\ ProbeOk /\ StdinRequested
    /\ Truthy(opts.body_file) /\ env.fileStatus = "missing"
    /\ env.stdin # <<>>
    /\ \E i \in MainCalls : calls[i].args.body = env.stdin
    /\ exitCode = 0

====
